---- MODULE Spec2Model ----
(***************************************************************************)
(* State-machine model of esprober.py: main() loads the query list, seeds  *)
(* the per-name duration lists from the results CSV, then write_results()  *)
(* drains the send_queries() generator, appending and flushing one CSV row *)
(* per successful Query.send().                                            *)
(*                                                                         *)
(* Time is counted in ticks of 10 ms (100 ticks = 1 second).  Durations    *)
(* are whole ticks; an average is the exact fraction <<sum, count>>, so    *)
(* floating-point rounding is outside the model.                           *)
(***************************************************************************)
EXTENDS Integers, Sequences, FiniteSets, TLC

\* ---------------------------------------------------------------- bounds
MaxQueries == 2      \* longest query list loaded from the queries file
MaxSeed == 2         \* most data rows of the ledger found at startup
MaxLag == 1          \* most ticks the clock advances between two statements

\* ------------------------------------------------------- input alphabets
Names == {"a", "b"}                 \* query names used in files
Durs == {1, 3}                      \* round-trip times of a request, in ticks
IntervalChoices == {100}            \* ESPROBER_QUERY_INTERVAL values (>= 1 s)
DurationChoices == {0, 1, 200}      \* ESPROBER_TEST_DURATION values, 0 = unset
None == 0                           \* Python None / 0.0 of an optional float
MinInterval == 100                  \* the floor max(1., ...) of QUERY_INTERVAL: 1 s

RECURSIVE SeqsUpTo(_, _)
SeqsUpTo(S, n) ==
    IF n = 0 THEN {<<>>}
    ELSE LET shorter == SeqsUpTo(S, n - 1)
         IN  shorter \cup {Append(s, x) : s \in {t \in shorter : Len(t) = n - 1}, x \in S}

RECURSIVE SumSeq(_)
SumSeq(s) == IF s = <<>> THEN 0 ELSE Head(s) + SumSeq(Tail(s))

RECURSIVE SelectSeqBy(_, _)
\* the durations of the rows of `rows` that carry name n, in order
SelectSeqBy(rows, n) ==
    IF rows = <<>> THEN <<>>
    ELSE LET rest == SelectSeqBy(Tail(rows), n)
         IN  IF Head(rows).name = n THEN <<Head(rows).duration>> \o rest ELSE rest

\* --------------------------------------------------------- CSV file lines
HeaderLine == [kind |-> "header", name |-> "name", duration |-> 0]
RowLine(n, d) == [kind |-> "row", name |-> n, duration |-> d]
QueryResult(n, d) == [name |-> n, duration |-> d]

RowLines == {RowLine(n, d) : n \in Names, d \in Durs}
\* a data line whose duration field float() cannot convert
BadLine == [kind |-> "bad", name |-> "a", duration |-> 0]

\* Ledgers found at startup: no file, or the header followed by data lines.
InitialLedgers ==
    {[exists |-> FALSE, lines |-> <<>>]}
    \cup {[exists |-> TRUE, lines |-> <<HeaderLine>> \o rs] :
             rs \in SeqsUpTo(RowLines \cup {BadLine}, MaxSeed)}

VARIABLES
    pc,             \* position of main()
    error,          \* exception that ended main(), "" if none
    QUERY_INTERVAL, \* module constant, from the environment
    TEST_DURATION,  \* module constant, from the environment (None = unset)
    interval,       \* send_queries' parameter
    queries,        \* names of the loaded Query objects, in list order
    durations,      \* dict name -> list of durations
    file,           \* the results file on disk
    fdbuf,          \* lines written to the open file object, not yet flushed
    rd,             \* number of data rows read_results has yielded
    now,            \* time.monotonic()
    test_deadline,  \* send_queries' local (None = no deadline)
    i,              \* position of the for loop in queries (1-based)
    result,         \* the QueryResult yielded by the generator
    logged,         \* name -> last average written by LOG.info
    file0,          \* history: the ledger as found at startup
    trace,          \* history: executor calls and pacing sleeps, in order
    runs,           \* number of restarts of the process so far
    killed_at,      \* position at which the process was killed, "" if it was not
    csv_file,       \* a results file as text: [exists, chars]
    csv_in,         \* the QueryResult values handed to write_results
    csv_out,        \* what read_results yielded: [error, rows]
    csv_pre,        \* history: the rows csv_file held before the write
    clients,        \* functools.cache of client(): url -> client object
    made,           \* history: the urls Elasticsearch() was constructed for, in order
    used            \* history: per Query.send call, [url, client]

config == <<QUERY_INTERVAL, TEST_DURATION, interval>>
crashvars == <<runs, killed_at>>
csvvars == <<csv_file, csv_in, csv_out, csv_pre>>
clientvars == <<clients, made, used>>
auxvars == <<csvvars, clientvars>>
mainvars == <<pc, error, config, queries, durations, file, fdbuf, rd, now,
              test_deadline, i, result, logged, file0, trace>>

vars == <<mainvars, crashvars, auxvars>>

NoResult == QueryResult("", 0)

Last(s) == s[Len(s)]

\* ---------------------------------------------------------------- average
\* a plausible slip: the mean taken over one element too many
average_off_by_one(ds) ==
    IF ds = <<>> THEN <<0, 1>> ELSE <<SumSeq(ds), Len(ds) + 1>>

\* sum(durations) / len(durations) as the fraction <<numerator, denominator>>;
\* 0.0 is <<0, 1>>.
average(ds) ==
    IF ds = <<>> THEN <<0, 1>> ELSE <<SumSeq(ds), Len(ds)>>

\* ----------------------------------------------------------- read_results
\* csv.DictReader takes the first line as the field names and yields the rest.
DataLines(f) == IF f.exists /\ f.lines # <<>> THEN Tail(f.lines) ELSE <<>>

\* TRUE when the rows of f can be read with row["timestamp"] etc.
HeaderOk(f) == f.lines = <<>> \/ Head(f.lines) = HeaderLine

\* the parts of the state a specification does not use
CrashIdle == runs = 0 /\ killed_at = ""
CsvIdle ==
    /\ csv_file = [exists |-> FALSE, chars |-> <<>>]
    /\ csv_in = <<>>
    /\ csv_out = [error |-> "", rows |-> <<>>]
    /\ csv_pre = <<>>
ClientIdle == clients = <<>> /\ made = <<>> /\ used = <<>>

Init ==
    /\ pc = "load"
    /\ error = ""
    /\ QUERY_INTERVAL \in IntervalChoices
    /\ TEST_DURATION \in DurationChoices
    /\ interval \in {0, QUERY_INTERVAL}
    /\ queries = <<>>
    /\ durations = <<>>
    /\ file \in InitialLedgers
    /\ fdbuf = <<>>
    /\ rd = 0
    /\ now = 0
    /\ test_deadline = None
    /\ i = 0
    /\ result = NoResult
    /\ logged = <<>>
    /\ file0 = file
    /\ trace = <<>>
    /\ CrashIdle
    /\ CsvIdle
    /\ ClientIdle

\* main, line 61: load_queries raises (file missing, not JSON, or an entry
\* that Query(**d) does not accept); main ends with the exception.
load_failed ==
    /\ pc = "load"
    /\ pc' = "aborted"
    /\ error' = "LoadError"
    /\ UNCHANGED <<config, crashvars, auxvars, queries, durations, file, fdbuf, rd, now,
                   test_deadline, i, result, logged, file0, trace>>

\* main, lines 61-63: load the queries, one empty duration list per name.
load_queries ==
    /\ pc = "load"
    /\ \E qs \in SeqsUpTo(Names, MaxQueries) :
        /\ queries' = qs
        /\ durations' = [n \in {qs[k] : k \in 1..Len(qs)} |-> <<>>]
    /\ pc' = "seed"
    /\ UNCHANGED <<error, config, crashvars, auxvars, file, fdbuf, rd, now, test_deadline, i, result,
                   logged, file0, trace>>

\* durations[result.name].append(result.duration)
SeedAppend(ds, r) == [ds EXCEPT ![r.name] = Append(@, r.duration)]

\* main, lines 64-65: one row of read_results into durations.
seed_row ==
    /\ pc = "seed"
    /\ rd < Len(DataLines(file))
    /\ LET r == DataLines(file)[rd + 1] IN
        IF ~HeaderOk(file)
        THEN /\ pc' = "aborted" /\ error' = "KeyError:timestamp"
             /\ UNCHANGED <<durations, rd>>
        ELSE IF r.kind = "bad"
        THEN /\ pc' = "aborted" /\ error' = "ValueError"
             /\ UNCHANGED <<durations, rd>>
        ELSE IF r.name \notin DOMAIN durations
        THEN /\ pc' = "aborted" /\ error' = "KeyError:name"
             /\ UNCHANGED <<durations, rd>>
        ELSE /\ durations' = SeedAppend(durations, r)
             /\ rd' = rd + 1
             /\ UNCHANGED <<pc, error>>
    /\ UNCHANGED <<config, crashvars, auxvars, queries, file, fdbuf, now, test_deadline, i, result,
                   logged, file0, trace>>

\* main, lines 66-67: read_results is exhausted; log the seeded averages.
seed_done ==
    /\ pc = "seed"
    /\ rd = Len(DataLines(file))
    /\ logged' = [n \in DOMAIN durations |-> average(durations[n])]
    /\ pc' = "open"
    /\ UNCHANGED <<error, config, crashvars, auxvars, queries, durations, file, fdbuf, rd, now,
                   test_deadline, i, result, file0, trace>>

\* a plausible slip: the failure to open is logged and the loop runs anyway
write_results_open_failed_ignored ==
    /\ pc = "open"
    /\ pc' = "gen"
    /\ error' = "OSError"
    /\ UNCHANGED <<config, crashvars, auxvars, queries, durations, file, fdbuf, rd, now,
                   test_deadline, i, result, logged, file0, trace>>

\* write_results, lines 145-151: os.makedirs or open raises; the generator
\* has not been started, main ends with the exception.
write_results_open_failed ==
    /\ pc = "open"
    /\ pc' = "aborted"
    /\ error' = "OSError"
    /\ UNCHANGED <<config, crashvars, auxvars, queries, durations, file, fdbuf, rd, now,
                   test_deadline, i, result, logged, file0, trace>>

\* a plausible slip: the file is opened with mode "w"
write_results_open_truncating ==
    /\ pc = "open"
    /\ file' = [exists |-> TRUE, lines |-> <<>>]
    /\ fdbuf' = <<HeaderLine>>
    /\ pc' = "gen"
    /\ UNCHANGED <<error, config, crashvars, auxvars, queries, durations, rd, now,
                   test_deadline, i, result, logged, file0, trace>>

\* a plausible slip: the header is never written
write_results_open_no_header ==
    /\ pc = "open"
    /\ file' = [file EXCEPT !.exists = TRUE]
    /\ fdbuf' = <<>>
    /\ pc' = "gen"
    /\ UNCHANGED <<error, config, crashvars, auxvars, queries, durations, rd, now,
                   test_deadline, i, result, logged, file0, trace>>

\* write_results, lines 145-155: open the file for append (which creates it)
\* and, when it did not exist, write the header into the file object.
write_results_open ==
    /\ pc = "open"
    /\ LET write_header == ~file.exists IN
        /\ file' = [file EXCEPT !.exists = TRUE]
        /\ fdbuf' = IF write_header THEN <<HeaderLine>> ELSE <<>>
    /\ pc' = "gen"
    /\ UNCHANGED <<error, config, crashvars, auxvars, queries, durations, rd, now, test_deadline, i,
                   result, logged, file0, trace>>

\* send_queries, lines 103-105: the first next() on the generator.
send_queries_start ==
    /\ pc = "gen"
    /\ test_deadline' = IF TEST_DURATION # None THEN now + TEST_DURATION ELSE None
    /\ i' = 1
    /\ pc' = "loop"
    /\ UNCHANGED <<error, config, crashvars, auxvars, queries, durations, file, fdbuf, rd, now, result,
                   logged, file0, trace>>

\* write_results, lines 156-161, and main, lines 73-76: the generator has
\* returned; the with-block closes the file and main logs the averages.
Finish ==
    /\ file' = [file EXCEPT !.lines = @ \o fdbuf]
    /\ fdbuf' = <<>>
    /\ logged' = [n \in DOMAIN durations |-> average(durations[n])]
    /\ pc' = "done"

\* send_queries, line 107: the list is exhausted.
loop_exhausted ==
    /\ pc = "loop"
    /\ i > Len(queries)
    /\ Finish
    /\ UNCHANGED <<error, config, crashvars, auxvars, queries, durations, rd, now, test_deadline, i,
                   result, file0, trace>>

\* the test of line 108, with the clock reading t
DeadlineBreaks(t) == test_deadline # None /\ t < test_deadline

\* send_queries, lines 108-110: the deadline test breaks out of the loop.
loop_break ==
    /\ pc = "loop"
    /\ i <= Len(queries)
    /\ \E lag \in 0..MaxLag :
        /\ now' = now + lag
        /\ DeadlineBreaks(now')
    /\ Finish
    /\ UNCHANGED <<error, config, crashvars, auxvars, queries, durations, rd, test_deadline, i, result,
                   file0, trace>>

\* send_queries, lines 108-112: the deadline test lets the query through;
\* without a deadline the `and` of line 108 does not read the clock.
loop_continue ==
    /\ pc = "loop"
    /\ i <= Len(queries)
    /\ IF test_deadline = None
       THEN now' = now
       ELSE \E lag \in 0..MaxLag :
               /\ now' = now + lag
               /\ ~DeadlineBreaks(now')
    /\ pc' = "send"
    /\ UNCHANGED <<error, config, crashvars, auxvars, queries, durations, file, fdbuf, rd, test_deadline,
                   i, result, logged, file0, trace>>

ExecEvent(pos, n, ok, d) == [op |-> "exec", pos |-> pos, name |-> n, ok |-> ok, dur |-> d]
SleepEvent(pos, n, d) == [op |-> "sleep", pos |-> pos, name |-> n, ok |-> TRUE, dur |-> d]

\* send_queries, lines 114 and 117-120: query.send() returns after d ticks;
\* the duration is recorded and the result is yielded to write_results.
send_ok(d) ==
    /\ pc = "send"
    /\ LET name == queries[i] IN
        /\ now' = now + d
        /\ result' = QueryResult(name, d)
        /\ durations' = [durations EXCEPT ![name] = Append(@, d)]
        /\ logged' = [logged EXCEPT ![name] = average(durations'[name])]
        /\ trace' = Append(trace, ExecEvent(i, name, TRUE, d))
    /\ pc' = "yielded"
    /\ UNCHANGED <<error, config, crashvars, auxvars, queries, file, fdbuf, rd, test_deadline, i, file0>>

\* a plausible slip: the failed observation is recorded all the same
send_failed_recorded(d) ==
    /\ pc = "send"
    /\ now' = now + d
    /\ durations' = [durations EXCEPT ![queries[i]] = Append(@, d)]
    /\ trace' = Append(trace, ExecEvent(i, queries[i], FALSE, d))
    /\ pc' = "sleep"
    /\ UNCHANGED <<error, config, crashvars, auxvars, queries, file, fdbuf, rd, test_deadline,
                   i, result, logged, file0>>

\* a plausible slip: the except clause leaves the loop (break)
send_failed_breaks(d) ==
    /\ pc = "send"
    /\ now' = now + d
    /\ trace' = Append(trace, ExecEvent(i, queries[i], FALSE, d))
    /\ Finish
    /\ UNCHANGED <<error, config, crashvars, auxvars, queries, durations, rd, test_deadline,
                   i, result, file0>>

\* send_queries, lines 114-116: query.send() raises after d ticks; the
\* exception is logged and control falls to the finally clause.
send_failed(d) ==
    /\ pc = "send"
    /\ now' = now + d
    /\ trace' = Append(trace, ExecEvent(i, queries[i], FALSE, d))
    /\ pc' = "sleep"
    /\ UNCHANGED <<error, config, crashvars, auxvars, queries, durations, file, fdbuf, rd, test_deadline,
                   i, result, logged, file0>>

query_send ==
    \E d \in Durs : send_ok(d) \/ send_failed(d)

\* a plausible slip: fd.flush() is missing, the row stays in the file object
write_row_unflushed ==
    /\ pc = "yielded"
    /\ fdbuf' = Append(fdbuf, RowLine(result.name, result.duration))
    /\ pc' = "sleep"
    /\ UNCHANGED <<error, config, crashvars, auxvars, queries, durations, file, rd, now,
                   test_deadline, i, result, logged, file0, trace>>

\* a plausible slip: the row is written again when the buffer is flushed
write_row_twice ==
    /\ pc = "yielded"
    /\ LET row == RowLine(result.name, result.duration) IN
        file' = [file EXCEPT !.lines = @ \o fdbuf \o <<row, row>>]
    /\ fdbuf' = <<>>
    /\ pc' = "sleep"
    /\ UNCHANGED <<error, config, crashvars, auxvars, queries, durations, rd, now, test_deadline, i,
                   result, logged, file0, trace>>

\* write_results, lines 156-159: writer.writerow(r); fd.flush(), then the
\* generator is resumed.
write_row ==
    /\ pc = "yielded"
    /\ file' = [file EXCEPT !.lines = @ \o fdbuf \o <<RowLine(result.name, result.duration)>>]
    /\ fdbuf' = <<>>
    /\ pc' = "sleep"
    /\ UNCHANGED <<error, config, crashvars, auxvars, queries, durations, rd, now, test_deadline, i,
                   result, logged, file0, trace>>

\* a plausible slip: the sleep sits in the else clause, not in finally
pace_after_success_only ==
    /\ pc = "sleep"
    /\ IF interval > 0 /\ Last(trace).ok
       THEN /\ now' = now + QUERY_INTERVAL
            /\ trace' = Append(trace, SleepEvent(i, queries[i], QUERY_INTERVAL))
       ELSE UNCHANGED <<now, trace>>
    /\ i' = i + 1
    /\ pc' = "loop"
    /\ UNCHANGED <<error, config, crashvars, auxvars, queries, durations, file, fdbuf, rd, test_deadline,
                   result, logged, file0>>

\* a plausible slip: a failed query is tried again before moving on
pace_retry_failed ==
    /\ pc = "sleep"
    /\ IF interval > 0
       THEN /\ now' = now + QUERY_INTERVAL
            /\ trace' = Append(trace, SleepEvent(i, queries[i], QUERY_INTERVAL))
       ELSE UNCHANGED <<now, trace>>
    /\ i' = IF Last(trace).ok \/ Len(trace) >= 2 * MaxQueries THEN i + 1 ELSE i
    /\ pc' = "loop"
    /\ UNCHANGED <<error, config, crashvars, auxvars, queries, durations, file, fdbuf, rd, test_deadline,
                   result, logged, file0>>

\* send_queries, lines 121-125: the finally clause, then the next iteration.
pace ==
    /\ pc = "sleep"
    /\ IF interval > 0
       THEN /\ now' = now + QUERY_INTERVAL
            /\ trace' = Append(trace, SleepEvent(i, queries[i], QUERY_INTERVAL))
       ELSE UNCHANGED <<now, trace>>
    /\ i' = i + 1
    /\ pc' = "loop"
    /\ UNCHANGED <<error, config, crashvars, auxvars, queries, durations, file, fdbuf, rd, test_deadline,
                   result, logged, file0>>

Next ==
    \/ load_failed
    \/ load_queries
    \/ seed_row
    \/ seed_done
    \/ write_results_open_failed
    \/ write_results_open
    \/ send_queries_start
    \/ loop_exhausted
    \/ loop_break
    \/ loop_continue
    \/ query_send
    \/ write_row
    \/ pace

Spec == Init /\ [][Next]_vars

\* ======================================================================
\* Abrupt termination and restart of the process
\* ======================================================================
MaxRestarts == 2     \* most restarts of the process in one behaviour

\* The process is killed (SIGKILL, power loss of the process): what the file
\* object had not flushed is lost, the file on disk stays as it is.
kill ==
    /\ pc \in {"load", "seed", "open", "gen", "loop", "send", "yielded", "sleep"}
    /\ killed_at' = pc
    /\ pc' = "killed"
    /\ fdbuf' = <<>>
    /\ queries' = <<>>
    /\ durations' = <<>>
    /\ rd' = 0
    /\ now' = 0
    /\ test_deadline' = None
    /\ i' = 0
    /\ result' = NoResult
    /\ logged' = <<>>
    /\ UNCHANGED <<error, config, auxvars, runs, file, file0, trace>>

\* the lines of the file that are not the header
DataOnDisk(f) == SelectSeq(f.lines, LAMBDA l : l.kind # "header")

\* main is started again on the same paths, lines 54-59; the ledger it finds
\* is within the sizes of InitialLedgers.
restart ==
    /\ pc \in {"killed", "done", "aborted"}
    /\ runs < MaxRestarts
    /\ Len(DataOnDisk(file)) <= MaxSeed
    /\ runs' = runs + 1
    /\ killed_at' = ""
    /\ pc' = "load"
    /\ error' = ""
    /\ queries' = <<>>
    /\ durations' = <<>>
    /\ fdbuf' = <<>>
    /\ rd' = 0
    /\ now' = 0
    /\ test_deadline' = None
    /\ i' = 0
    /\ result' = NoResult
    /\ logged' = <<>>
    /\ file0' = file
    /\ trace' = <<>>
    /\ UNCHANGED <<config, auxvars, file>>

\* The first run starts without a ledger, so every ledger a later run finds
\* was written by esprober itself.
InitCrash ==
    /\ Init
    /\ TEST_DURATION \in {None, 200}
    /\ interval = QUERY_INTERVAL
    /\ ~file.exists

NextCrash ==
    \/ Next
    \/ kill
    \/ restart

SpecCrash == InitCrash /\ [][NextCrash]_vars

\* list(read_results(filename)) on the lines of a file: the rows yielded and
\* the exception that ended the iteration, "" if none
LedgerRead(f) ==
    IF ~f.exists \/ f.lines = <<>> THEN [error |-> "", rows |-> <<>>]
    ELSE LET data == Tail(f.lines)
             bad == {k \in 1..Len(data) : data[k].kind # "row"}
             stop == IF bad = {} THEN Len(data) + 1
                     ELSE CHOOSE k \in bad : \A m \in bad : k <= m
         IN  IF Head(f.lines) # HeaderLine
             THEN [error |-> (IF data = <<>> THEN "" ELSE "KeyError:timestamp"),
                   rows |-> <<>>]
             ELSE [error |-> (IF bad = {} THEN "" ELSE "ValueError"),
                   rows |-> SubSeq(data, 1, stop - 1)]

\* ======================================================================
\* The results file as text: csv.DictWriter / csv.DictReader (excel dialect)
\* A text is a sequence of characters; "dq", "cr" and "lf" stand for the
\* double quote, carriage return and line feed.  A duration is written as
\* the decimal numeral of its number of ticks.
\* ======================================================================
MaxCsvRows == 2      \* most results handed to one write_results call

DigitChars == <<"0", "1", "2", "3", "4", "5", "6", "7", "8", "9">>
SpecialChars == {",", "dq", "cr", "lf"}
FieldNames == <<(<<"timestamp">>), (<<"name">>), (<<"duration">>)>>

CsvResult(t, n, d) == [timestamp |-> t, name |-> n, duration |-> d]

\* names and observations the text model is exercised with
CsvNames ==
    {<<"a">>, <<>>, <<"a", ",">>, <<"dq">>, <<"dq", "a", "dq">>, <<"lf", "a">>,
     <<"a", "cr">>, <<",", "dq">>}
CsvStamps == {<<"1", "2">>, <<"7">>}
CsvDurs == {0, 12}
CsvResults ==
    {CsvResult(t, n, d) : t \in CsvStamps, n \in CsvNames, d \in CsvDurs}
CsvPreResults ==
    {CsvResult(<<"7">>, <<"a", ",">>, 3), CsvResult(<<"1">>, <<"b">>, 40)}

RECURSIVE Concat(_)
Concat(ss) == IF ss = <<>> THEN <<>> ELSE Head(ss) \o Concat(Tail(ss))

\* str(float): the numeral of n
RECURSIVE FormatNumber(_)
FormatNumber(n) ==
    IF n < 10 THEN <<DigitChars[n + 1]>>
    ELSE FormatNumber(n \div 10) \o <<DigitChars[(n % 10) + 1]>>

DigitValue(c) == (CHOOSE k \in 1..10 : DigitChars[k] = c) - 1
IsDigit(c) == \E k \in 1..10 : DigitChars[k] = c
\* the characters of a text that float() takes as whitespace
Whitespace == {"cr", "lf"}

\* str.strip(): leading and trailing whitespace removed, as float() does
\* before it reads the numeral
RECURSIVE StripText(_)
StripText(cs) ==
    IF cs = <<>> THEN <<>>
    ELSE IF Head(cs) \in Whitespace THEN StripText(Tail(cs))
    ELSE IF cs[Len(cs)] \in Whitespace THEN StripText(SubSeq(cs, 1, Len(cs) - 1))
    ELSE cs

\* TRUE when float(cs) returns: digits, with whitespace around them allowed
IsNumeral(cs) ==
    LET ds == StripText(cs)
    IN  ds # <<>> /\ \A k \in 1..Len(ds) : IsDigit(ds[k])

\* the value of a non-empty text of digits
RECURSIVE ParseDigits(_)
ParseDigits(ds) ==
    IF Len(ds) = 1 THEN DigitValue(ds[1])
    ELSE 10 * ParseDigits(SubSeq(ds, 1, Len(ds) - 1)) + DigitValue(ds[Len(ds)])

\* float(text) of a numeral
ParseNumber(cs) == ParseDigits(StripText(cs))

\* ------------------------------------------------------------ csv.writer
NeedsQuote(f) == \E k \in 1..Len(f) : f[k] \in SpecialChars

RECURSIVE Doubled(_)
Doubled(f) ==
    IF f = <<>> THEN <<>>
    ELSE (IF Head(f) = "dq" THEN <<"dq", "dq">> ELSE <<Head(f)>>) \o Doubled(Tail(f))

\* a plausible slip: fields are written as they are, never quoted
CsvField_unquoted(f) == f

\* one field as csv.writer writes it (QUOTE_MINIMAL, doublequote)
CsvField(f) ==
    IF NeedsQuote(f) THEN <<"dq">> \o Doubled(f) \o <<"dq">> ELSE f

\* writer.writerow: the fields joined by the delimiter, then "\r\n"
CsvRecord(fields) ==
    Concat([k \in 1..Len(fields) |->
               (IF k = 1 THEN <<>> ELSE <<",">>) \o CsvField(fields[k])])
    \o <<"cr", "lf">>

\* dataclasses.asdict(r) in fieldnames order
ResultFields(r) == <<r.timestamp, r.name, FormatNumber(r.duration)>>

\* write_results(filename, results), lines 144-161
WriteResults(f, rs) ==
    LET write_header == ~f.exists
        head == IF write_header THEN CsvRecord(FieldNames) ELSE <<>>
        body == Concat([k \in 1..Len(rs) |-> CsvRecord(ResultFields(rs[k]))])
    IN  [exists |-> TRUE, chars |-> f.chars \o head \o body]

\* ------------------------------------------------------------ csv.reader
\* The parser of csv.reader: st is its state, field the field being read,
\* fields the fields of the record being read, rows the records returned.
ParserStart ==
    [st |-> "START_RECORD", field |-> <<>>, fields |-> <<>>, rows |-> <<>>, err |-> ""]

SaveField(p) == [p EXCEPT !.fields = Append(@, p.field), !.field = <<>>]
AddChar(p, c) == [p EXCEPT !.field = Append(@, c)]
IsEol(c) == c \in {"cr", "lf"}

\* parse_process_char for a character of the line
ParseChar(p, c) ==
    CASE p.st \in {"START_RECORD", "START_FIELD"} ->
            IF p.st = "START_RECORD" /\ IsEol(c) THEN [p EXCEPT !.st = "EAT_CRNL"]
            ELSE IF IsEol(c) THEN [SaveField(p) EXCEPT !.st = "EAT_CRNL"]
            ELSE IF c = "dq" THEN [p EXCEPT !.st = "IN_QUOTED_FIELD"]
            ELSE IF c = "," THEN [SaveField(p) EXCEPT !.st = "START_FIELD"]
            ELSE [AddChar(p, c) EXCEPT !.st = "IN_FIELD"]
      [] p.st = "IN_FIELD" ->
            IF IsEol(c) THEN [SaveField(p) EXCEPT !.st = "EAT_CRNL"]
            ELSE IF c = "," THEN [SaveField(p) EXCEPT !.st = "START_FIELD"]
            ELSE AddChar(p, c)
      [] p.st = "IN_QUOTED_FIELD" ->
            IF c = "dq" THEN [p EXCEPT !.st = "QUOTE_IN_QUOTED_FIELD"]
            ELSE AddChar(p, c)
      [] p.st = "QUOTE_IN_QUOTED_FIELD" ->
            IF c = "dq" THEN [AddChar(p, c) EXCEPT !.st = "IN_QUOTED_FIELD"]
            ELSE IF c = "," THEN [SaveField(p) EXCEPT !.st = "START_FIELD"]
            ELSE IF IsEol(c) THEN [SaveField(p) EXCEPT !.st = "EAT_CRNL"]
            ELSE [AddChar(p, c) EXCEPT !.st = "IN_FIELD"]
      [] p.st = "EAT_CRNL" ->
            IF IsEol(c) THEN p
            ELSE [p EXCEPT !.err = "Error:new-line character seen in unquoted field"]

\* parse_process_char at the end of a line, and the record Reader_iternext
\* returns when the parser is back at the start of a record
ParseEol(p) ==
    LET q == CASE p.st = "START_RECORD" -> p
               [] p.st = "START_FIELD" -> [SaveField(p) EXCEPT !.st = "START_RECORD"]
               [] p.st = "IN_FIELD" -> [SaveField(p) EXCEPT !.st = "START_RECORD"]
               [] p.st = "IN_QUOTED_FIELD" -> p
               [] p.st = "QUOTE_IN_QUOTED_FIELD" -> [SaveField(p) EXCEPT !.st = "START_RECORD"]
               [] p.st = "EAT_CRNL" -> [p EXCEPT !.st = "START_RECORD"]
    IN  IF q.st = "START_RECORD"
        THEN [q EXCEPT !.rows = Append(@, q.fields), !.fields = <<>>]
        ELSE q

\* TRUE when the file object ends a line after chars[k] (newline = "")
LineEndsAt(chars, k) ==
    \/ chars[k] = "lf"
    \/ chars[k] = "cr" /\ (k = Len(chars) \/ chars[k + 1] # "lf")
    \/ k = Len(chars)

RECURSIVE ParseFrom(_, _, _)
ParseFrom(chars, k, p) ==
    IF p.err # "" \/ k > Len(chars) THEN p
    ELSE LET q == ParseChar(p, chars[k])
         IN  ParseFrom(chars, k + 1,
                       IF q.err = "" /\ LineEndsAt(chars, k) THEN ParseEol(q) ELSE q)

\* list(csv.reader(file)): the records, and the error if the parser raised;
\* at the end of the file an unfinished quoted field is returned as it is
CsvRecords(chars) ==
    LET p == ParseFrom(chars, 1, ParserStart)
    IN  IF p.err = "" /\ p.st = "IN_QUOTED_FIELD"
        THEN [SaveField(p) EXCEPT !.rows = Append(@, Append(p.fields, p.field))]
        ELSE p

\* row[key] of the dict csv.DictReader builds: the index of key, 0 if absent
KeyIndex(fieldnames, key) ==
    IF \E k \in 1..Len(fieldnames) : fieldnames[k] = key
    THEN CHOOSE k \in 1..Len(fieldnames) :
            fieldnames[k] = key /\ \A m \in (k + 1)..Len(fieldnames) : fieldnames[m] # key
    ELSE 0

\* one DictReader row through read_results' loop body, lines 135-139
ReadRow(fieldnames, row) ==
    LET ti == KeyIndex(fieldnames, <<"timestamp">>)
        ni == KeyIndex(fieldnames, <<"name">>)
        di == KeyIndex(fieldnames, <<"duration">>)
    IN  IF ti = 0 THEN [error |-> "KeyError:timestamp"]
        ELSE IF ni = 0 THEN [error |-> "KeyError:name"]
        ELSE IF di = 0 THEN [error |-> "KeyError:duration"]
        ELSE IF di > Len(row) THEN [error |-> "TypeError"]
        ELSE IF ~IsNumeral(row[di]) THEN [error |-> "ValueError"]
        ELSE [error |-> "",
              value |-> CsvResult(IF ti > Len(row) THEN <<"None">> ELSE row[ti],
                                  IF ni > Len(row) THEN <<"None">> ELSE row[ni],
                                  ParseNumber(row[di]))]

RECURSIVE ReadRowsFrom(_, _, _, _)
ReadRowsFrom(fieldnames, rows, k, acc) ==
    IF k > Len(rows) THEN [error |-> "", rows |-> acc]
    ELSE IF rows[k] = <<>> THEN ReadRowsFrom(fieldnames, rows, k + 1, acc)
    ELSE LET r == ReadRow(fieldnames, rows[k])
         IN  IF r.error # "" THEN [error |-> r.error, rows |-> acc]
             ELSE ReadRowsFrom(fieldnames, rows, k + 1, Append(acc, r.value))

\* list(read_results(filename)), lines 128-141: the results yielded and the
\* exception that ended the iteration, "" if none
ReadResults(f) ==
    IF ~f.exists THEN [error |-> "", rows |-> <<>>]
    ELSE LET p == CsvRecords(f.chars)
         IN  IF p.rows = <<>> THEN [error |-> p.err, rows |-> <<>>]
             ELSE LET got == ReadRowsFrom(Head(p.rows), Tail(p.rows), 1, <<>>)
                  IN  IF got.error = "" THEN [got EXCEPT !.error = p.err] ELSE got

\* ------------------------------------------------ specification SpecCsv
MainIdle ==
    /\ error = ""
    /\ QUERY_INTERVAL \in IntervalChoices
    /\ TEST_DURATION = None
    /\ interval = QUERY_INTERVAL
    /\ queries = <<>>
    /\ durations = <<>>
    /\ file = [exists |-> FALSE, lines |-> <<>>]
    /\ fdbuf = <<>>
    /\ rd = 0
    /\ now = 0
    /\ test_deadline = None
    /\ i = 0
    /\ result = NoResult
    /\ logged = <<>>
    /\ file0 = file
    /\ trace = <<>>

\* a results file as an earlier write_results left it, or none
CsvInitialFiles ==
    {<<>>} \cup {<<"header">>} \cup {<<"header", r>> : r \in CsvPreResults}

InitCsv ==
    /\ pc = "csv"
    /\ MainIdle
    /\ CrashIdle
    /\ ClientIdle
    /\ csv_in \in SeqsUpTo(CsvResults, MaxCsvRows)
    /\ \E pre \in CsvInitialFiles :
        /\ csv_pre = (IF pre = <<>> THEN <<>> ELSE Tail(pre))
        /\ csv_file = (IF pre = <<>> THEN [exists |-> FALSE, chars |-> <<>>]
                       ELSE WriteResults([exists |-> FALSE, chars |-> <<>>], Tail(pre)))
    /\ csv_out = [error |-> "", rows |-> <<>>]

\* write_results(path, csv_in)
csv_write ==
    /\ pc = "csv"
    /\ csv_file' = WriteResults(csv_file, csv_in)
    /\ pc' = "csv_written"
    /\ UNCHANGED <<error, config, crashvars, clientvars, queries, durations, file,
                   fdbuf, rd, now, test_deadline, i, result, logged, file0, trace,
                   csv_in, csv_out, csv_pre>>

\* list(read_results(path))
csv_read ==
    /\ pc = "csv_written"
    /\ csv_out' = ReadResults(csv_file)
    /\ pc' = "csv_read"
    /\ UNCHANGED <<error, config, crashvars, clientvars, queries, durations, file,
                   fdbuf, rd, now, test_deadline, i, result, logged, file0, trace,
                   csv_file, csv_in, csv_pre>>

NextCsv ==
    \/ csv_write
    \/ csv_read

SpecCsv == InitCsv /\ [][NextCsv]_vars

\* ======================================================================
\* prober.py: the fixed-query prober
\* ======================================================================
MaxSweeps == 2       \* most passes of prober.main over its query list

\* list(QUERIES), prober.py lines 22-75
query_names == <<"service.node.name-wildcard", "service.node.name-term",
                 "kubernetes.pod.name-wildcard", "kubernetes.pod.name-term">>

InitProber ==
    /\ pc = "prober_main"
    /\ error = ""
    /\ QUERY_INTERVAL \in IntervalChoices
    /\ TEST_DURATION \in DurationChoices
    /\ interval = QUERY_INTERVAL
    /\ queries = <<>>
    /\ durations = <<>>
    /\ file = [exists |-> FALSE, lines |-> <<>>]
    /\ fdbuf = <<>>
    /\ rd = 0
    /\ now = 0
    /\ test_deadline = None
    /\ i = 0
    /\ result = NoResult
    /\ logged = <<>>
    /\ file0 = file
    /\ trace = <<>>
    /\ CrashIdle
    /\ CsvIdle
    /\ ClientIdle

\* prober.main, lines 84-91: the deadline and one empty list per query name;
\* nothing is logged here
prober_main ==
    /\ pc = "prober_main"
    /\ test_deadline' = (IF TEST_DURATION # None THEN now + TEST_DURATION ELSE None)
    /\ queries' = query_names
    /\ durations' = [n \in {query_names[k] : k \in 1..Len(query_names)} |-> <<>>]
    /\ pc' = "prober_while"
    /\ UNCHANGED <<error, config, crashvars, auxvars, file, fdbuf, rd, now, i, result,
                   logged, file0, trace>>

\* line 94: while not test_deadline or time.monotonic() < test_deadline.
\* With a deadline the clock is read again, up to MaxLag ticks after the
\* last statement; without one the `or` does not read it.
prober_while ==
    /\ pc = "prober_while"
    /\ IF test_deadline = None
       THEN now' = now
       ELSE \E lag \in 0..MaxLag : now' = now + lag
    /\ IF test_deadline = None \/ now' < test_deadline
       THEN /\ Len(SelectSeq(trace, LAMBDA e : e.op = "exec")) < MaxSweeps * Len(queries)
            /\ i' = 1
            /\ pc' = "prober_search"
       ELSE /\ i' = i
            /\ pc' = "done"
    /\ UNCHANGED <<error, config, crashvars, auxvars, queries, durations, file, fdbuf, rd,
                   test_deadline, result, logged, file0, trace>>

\* lines 99-102 with search (112-115) returning after d ticks
prober_search_ok(d) ==
    /\ pc = "prober_search"
    /\ LET name == queries[i] IN
        /\ now' = now + d
        /\ durations' = [durations EXCEPT ![name] = Append(@, d)]
        /\ logged' = [n \in DOMAIN logged \cup {name} |->
                         IF n = name THEN average(durations'[name]) ELSE logged[n]]
        /\ trace' = Append(trace, ExecEvent(i, name, TRUE, d))
    /\ pc' = "prober_sleep"
    /\ UNCHANGED <<error, config, crashvars, auxvars, queries, file, fdbuf, rd,
                   test_deadline, i, result, file0>>

\* search, lines 116-118: ConnectionTimeout is logged and the process exits
prober_search_timeout(d) ==
    /\ pc = "prober_search"
    /\ now' = now + d
    /\ trace' = Append(trace, ExecEvent(i, queries[i], FALSE, d))
    /\ error' = "SystemExit"
    /\ pc' = "exited"
    /\ UNCHANGED <<config, crashvars, auxvars, queries, durations, file, fdbuf, rd,
                   test_deadline, i, result, logged, file0>>

\* search catches nothing else and main has no try: any other error of the
\* client leaves main as an exception
prober_search_raises(d) ==
    /\ pc = "prober_search"
    /\ now' = now + d
    /\ trace' = Append(trace, ExecEvent(i, queries[i], FALSE, d))
    /\ error' = "TransportError"
    /\ pc' = "aborted"
    /\ UNCHANGED <<config, crashvars, auxvars, queries, durations, file, fdbuf, rd,
                   test_deadline, i, result, logged, file0>>

prober_search ==
    \E d \in Durs : prober_search_ok(d) \/ prober_search_timeout(d) \/ prober_search_raises(d)

\* line 103 and the for statement of line 95
prober_sleep ==
    /\ pc = "prober_sleep"
    /\ now' = now + QUERY_INTERVAL
    /\ trace' = Append(trace, SleepEvent(i, queries[i], QUERY_INTERVAL))
    /\ IF i < Len(queries)
       THEN i' = i + 1 /\ pc' = "prober_search"
       ELSE i' = i /\ pc' = "prober_while"
    /\ UNCHANGED <<error, config, crashvars, auxvars, queries, durations, file, fdbuf, rd,
                   test_deadline, result, logged, file0>>

NextProber ==
    \/ prober_main
    \/ prober_while
    \/ prober_search
    \/ prober_sleep

SpecProber == InitProber /\ [][NextProber]_vars

\* ======================================================================
\* Query.send and the client cache, esprober.py lines 35-44 and 170-175
\* A URL is a sequence of characters; "h" stands for a base address
\* without trailing "/", "p" and "q" for index patterns.
\* ======================================================================
MaxCalls == 3        \* most Query.send calls in one behaviour

API_URL == <<"h">>
Paths == {<<>>, <<"/">>, <<"p">>, <<"p", "/">>, <<"q">>}

RECURSIVE rstrip(_, _)
\* str.rstrip(c): every trailing c removed
rstrip(str, c) ==
    IF str # <<>> /\ Last(str) = c THEN rstrip(SubSeq(str, 1, Len(str) - 1), c) ELSE str

\* line 36: f"{API_URL}/{self.path}".rstrip("/")
Url(path) == rstrip(API_URL \o <<"/">> \o path, "/")

InitClient ==
    /\ pc = "client"
    /\ MainIdle
    /\ CrashIdle
    /\ CsvIdle
    /\ ClientIdle

\* a plausible slip: no functools.cache, every call constructs a client
client_send_uncached(path) ==
    /\ pc = "client"
    /\ Len(used) < MaxCalls
    /\ LET url == Url(path)
           c == Len(made) + 1
       IN  /\ made' = Append(made, url)
           /\ clients' = [u \in DOMAIN clients \cup {url} |->
                             IF u = url THEN c ELSE clients[u]]
           /\ used' = Append(used, [path |-> path, url |-> url, client |-> c])
    /\ UNCHANGED <<mainvars, crashvars, csvvars>>

\* Query.send up to client(url), lines 36 and 42: functools.cache returns the
\* client made for an equal url, or makes one (lines 172-175) and keeps it.
\* clients is the cache, made the urls clients were constructed for, in
\* order, used the client of each call.
client_send(path) ==
    /\ pc = "client"
    /\ Len(used) < MaxCalls
    /\ LET url == Url(path) IN
        IF url \in DOMAIN clients
        THEN /\ used' = Append(used, [path |-> path, url |-> url, client |-> clients[url]])
             /\ UNCHANGED <<clients, made>>
        ELSE LET c == Len(made) + 1 IN
             /\ made' = Append(made, url)
             /\ clients' = [u \in DOMAIN clients \cup {url} |->
                               IF u = url THEN c ELSE clients[u]]
             /\ used' = Append(used, [path |-> path, url |-> url, client |-> c])
    /\ UNCHANGED <<mainvars, crashvars, csvvars>>

NextClient ==
    \E path \in Paths : client_send(path)

SpecClient == InitClient /\ [][NextClient]_vars

\* ------------------------------------------------- observations of a run
IsExec(e) == e.op = "exec"
IsOkExec(e) == e.op = "exec" /\ e.ok
IsRow(l) == l.kind = "row"

\* the executor calls so far, in order
Execs == SelectSeq(trace, IsExec)
\* the results of the successful executor calls so far, as ledger rows
SuccessRows ==
    LET oks == SelectSeq(trace, IsOkExec)
    IN  [k \in 1..Len(oks) |-> RowLine(oks[k].name, oks[k].dur)]
\* the data rows on disk at startup and now
RowsAtStart == SelectSeq(file0.lines, IsRow)
RowsOnDisk == SelectSeq(file.lines, IsRow)
\* the data rows this run has appended
Appended == SubSeq(RowsOnDisk, Len(RowsAtStart) + 1, Len(RowsOnDisk))
QueryNames == {queries[k] : k \in 1..Len(queries)}
LastExecFailed == trace # <<>> /\ Last(trace).op = "exec" /\ ~Last(trace).ok
Running == pc \in {"loop", "send", "yielded", "sleep", "done"}
\* the exceptions that reading and seeding from the ledger can end main with
ReadErrors == {"KeyError:timestamp", "KeyError:name", "ValueError"}
\* a ledger that is the header followed by convertible data rows, or no file
WellFormed(f) ==
    /\ f.exists => (f.lines # <<>> /\ Head(f.lines) = HeaderLine)
    /\ \A k \in 2..Len(f.lines) : f.lines[k].kind = "row"

\* C1: a query execution in which Query.send raises writes no ledger row and
\* changes no entry of the durations map, so every average is the same before
\* and after it (the failing call and the pacing step that ends the iteration).
C1_FailedExecutionChangesNothing ==
    [][ ( \/ (trace' # trace /\ Last(trace').op = "exec" /\ ~Last(trace').ok)
          \/ (pc = "sleep" /\ LastExecFailed) )
        => /\ file' = file
           /\ fdbuf' = fdbuf
           /\ durations' = durations
           /\ \A n \in DOMAIN durations : average(durations'[n]) = average(durations[n])
      ]_vars

\* C1 witness: a query has just failed while some name already has durations.
C1_Witness ==
    /\ pc = "sleep"
    /\ LastExecFailed
    /\ \E n \in DOMAIN durations : Len(durations[n]) >= 2

\* C2: a failed query neither ends the loop nor skips the rest: when main has
\* finished, every failed execution at a position before the end of the list
\* is followed by an execution of the next position, and main never aborts
\* once the executor has been called.
C2_FailureDoesNotAbortLoop ==
    /\ pc = "done" =>
         \A k \in 1..Len(Execs) :
            (~Execs[k].ok /\ Execs[k].pos < Len(queries))
               => (k < Len(Execs) /\ Execs[k + 1].pos = Execs[k].pos + 1)
    /\ (pc = "aborted" \/ error # "") => trace = <<>>

\* C2 witness: the first query failed and the second was executed afterwards.
C2_Witness ==
    /\ pc = "done"
    /\ Len(Execs) = 2
    /\ ~Execs[1].ok
    /\ Execs[2].pos = 2

\* C3: the rows appended to the ledger during the run are, in execution
\* order, exactly one row per successful Query.send with the query's name and
\* measured duration; while a result is yielded and not yet written it is the
\* only one missing; every name is one of the loaded query list; the rows
\* found at startup stay in front.
C3_ExactlyOnceAppendPerSuccess ==
    Running =>
        LET appended == Appended
            execs == Execs
            names == QueryNames
        IN  /\ SubSeq(RowsOnDisk, 1, Len(RowsAtStart)) = RowsAtStart
            /\ IF pc = "yielded"
               THEN appended \o <<RowLine(result.name, result.duration)>> = SuccessRows
               ELSE appended = SuccessRows
            /\ \A k \in 1..Len(appended) : appended[k].name \in names
            /\ \A k \in 1..Len(execs) : execs[k].name = queries[execs[k].pos]

\* C3 witness: two successful executions have been written, after seed rows.
C3_Witness ==
    /\ pc = "done"
    /\ Len(Appended) = 2
    /\ Len(RowsAtStart) >= 1
    /\ Len(Execs) = 2

\* the scenario of C4: queries [a, b], interval 1 s, total duration 2 s, an
\* executor that always succeeds in 0.01 s
C4_Scenario ==
    /\ queries = <<"a", "b">>
    /\ QUERY_INTERVAL = 100
    /\ interval = 100
    /\ TEST_DURATION = 200
    /\ \A k \in 1..Len(Execs) : Execs[k].ok /\ Execs[k].dur = 1

\* C4: in the scenario, when the loop has ended at least one full sweep was
\* executed and the ledger gained 2 or 4 rows whose names alternate a, b.
C4_DurationBoundedSweeps ==
    (C4_Scenario /\ pc = "done") =>
        /\ Len(Appended) \in {2, 4}
        /\ \A k \in 1..Len(Appended) :
              Appended[k].name = (IF k % 2 = 1 THEN "a" ELSE "b")

\* C5: with a total test-duration configured, no query is executed once the
\* duration, measured from the instant captured at loop start, has elapsed
\* at the test that precedes it.
C5_NoQueryAfterDurationElapsed ==
    (TEST_DURATION # None /\ pc = "send") => now < test_deadline

\* C6: with no total test-duration configured the probe loop never stops by
\* itself.
C6_RunsIndefinitelyWithoutDuration ==
    (TEST_DURATION = None /\ queries # <<>>) => pc # "done"

\* C7: with the configured interval (at least 1 second) every executor call,
\* successful or failed, is directly followed by one pacing sleep of
\* QUERY_INTERVAL before anything else happens, the last query of the sweep
\* included; so no two executor calls are adjacent.
C7_PacingAfterEveryQuery ==
    interval >= MinInterval =>
        /\ QUERY_INTERVAL >= MinInterval
        /\ \A k \in 1..(Len(trace) - 1) :
              trace[k].op = "exec" =>
                 /\ trace[k + 1].op = "sleep"
                 /\ trace[k + 1].dur = QUERY_INTERVAL
                 /\ trace[k + 1].pos = trace[k].pos
        /\ (pc \in {"loop", "send", "done"} /\ trace # <<>>) => Last(trace).op = "sleep"

\* C7 witness: a failed and a successful execution, each followed by its sleep,
\* the second being the last query of the sweep.
C7_Witness ==
    /\ pc = "done"
    /\ interval >= MinInterval
    /\ Len(trace) = 4
    /\ ~trace[1].ok
    /\ trace[3].op = "exec" /\ trace[3].ok
    /\ trace[4].op = "sleep"

\* C8: queries execute one at a time in list order: the k-th executor call of
\* the sweep is the query at list position k, so no query is executed twice
\* and a failed one is not retried.
C8_SequentialInListOrder ==
    /\ Len(Execs) <= Len(queries)
    /\ \A k \in 1..Len(Execs) :
          /\ Execs[k].pos = k
          /\ Execs[k].name = queries[k]
    /\ pc = "send" => Len(Execs) = i - 1
    /\ pc \in {"yielded", "sleep"} => Len(Execs) = i

\* C8 witness: the first query failed and the run went on to the second.
C8_Witness ==
    /\ Len(queries) = 2
    /\ Len(Execs) = 2
    /\ ~Execs[1].ok
    /\ queries[1] = queries[2]

\* the durations of name n: the seed rows, then this run's successes
Observed(n) == SelectSeqBy(RowsAtStart, n) \o SelectSeqBy(SuccessRows, n)

\* C9: for every name of the list, the average last logged for it equals the
\* sum of its seed durations and of its successful executions' durations
\* divided by their number, and is 0.0 while there is none.
C9_AverageIsArithmeticMean ==
    (Running /\ error = "") =>
        \A n \in DOMAIN durations :
            LET all == Observed(n)
                avg == logged[n]
            IN  /\ avg = average(durations[n])
                /\ IF all = <<>>
                   THEN avg = <<0, 1>>
                   ELSE /\ avg[2] > 0
                        /\ avg[1] * Len(all) = SumSeq(all) * avg[2]

\* C9 witness: a name with two seed rows and a later success, of different
\* durations, and another name of the list with no observation at all.
C9_Witness ==
    /\ pc = "done"
    /\ \E n \in DOMAIN durations :
          /\ Len(SelectSeqBy(RowsAtStart, n)) = 2
          /\ Len(durations[n]) = 3
          /\ durations[n][1] # durations[n][3]
    /\ \E n \in DOMAIN durations : durations[n] = <<>>

\* C10: against any pre-existing, non-empty ledger, whatever names its rows
\* carry, startup completes and, before the first query is sent, the
\* durations of every name of the list are those of the ledger rows with
\* that name, in file order.
C10_RestartSeedsFromAnyLedger ==
    (file0.exists /\ RowsAtStart # <<>> /\ WellFormed(file0)) =>
        /\ error \notin ReadErrors
        /\ pc \in {"open", "gen"} =>
              \A n \in DOMAIN durations : durations[n] = SelectSeqBy(RowsAtStart, n)

\* C11: write_results followed by read_results on the same path yields,
\* without error, the rows the file already held followed by exactly the
\* values written, equal field by field (timestamp, name, duration) and in
\* write order.
C11_LedgerRoundTrip ==
    pc = "csv_read" =>
        /\ csv_out.error = ""
        /\ csv_out.rows = csv_pre \o csv_in
        /\ Len(csv_out.rows) = Len(csv_pre) + Len(csv_in)
        /\ \A k \in 1..Len(csv_in) :
              LET w == csv_in[k]
                  r == csv_out.rows[Len(csv_pre) + k]
              IN  r.timestamp = w.timestamp /\ r.name = w.name /\ r.duration = w.duration

\* C11 witness: two different results, one with a delimiter and one with a
\* quote and a line break in the name, came back after an earlier row.
C11_Witness ==
    /\ pc = "csv_read"
    /\ Len(csv_pre) = 1
    /\ Len(csv_in) = 2
    /\ csv_in[1].name = <<"a", ",">>
    /\ csv_in[2].name = <<"lf", "a">>
    /\ csv_in[1].duration # csv_in[2].duration
    /\ Len(csv_out.rows) = 3

\* C12: when the ledger file does not exist, reading it yields nothing, raises
\* nothing and does not create the file; the write_results call that follows
\* creates it, and once it has written one result the file is the header row
\* followed by exactly that one data row.
C12_MissingLedger ==
    ~file0.exists =>
        /\ pc \in {"load", "seed", "open"} => (~file.exists /\ file.lines = <<>> /\ rd = 0)
        /\ error \notin ReadErrors
        /\ pc \in {"gen", "loop", "send", "yielded", "sleep", "done"} => file.exists
        /\ (Len(SuccessRows) = 1 /\ pc \in {"sleep", "loop", "send", "done"})
              => file.lines = <<HeaderLine>> \o SuccessRows

\* C12 witness: a run that started without a ledger has written one result.
C12_Witness ==
    /\ ~file0.exists
    /\ pc = "sleep"
    /\ Len(SuccessRows) = 1
    /\ Len(file.lines) = 2

\* C16: a startup error (the query definitions cannot be loaded, a ledger row
\* cannot be converted, the ledger cannot be created or opened) ends main
\* before any query is executed and before any row is written.
C16_StartupErrorsAbortBeforeQueries ==
    error \in {"LoadError", "ValueError", "OSError"} =>
        /\ pc = "aborted"
        /\ Execs = <<>>
        /\ file = file0
        /\ fdbuf = <<>>

\* C16 witness: the ledger's second data row is malformed; main has aborted
\* after seeding the first.
C16_Witness ==
    /\ pc = "aborted"
    /\ error = "ValueError"
    /\ rd = 1
    /\ queries # <<>>

IsHeader(l) == l.kind = "header"
IsPrefix(s, t) == Len(s) <= Len(t) /\ SubSeq(t, 1, Len(s)) = s
AllButLast(s) == SubSeq(s, 1, Len(s) - 1)
\* C13: whatever runs came before, killed ones included, a ledger file that
\* holds a data row starts with the header, and holds the header once.
C13_HeaderExactlyOnce ==
    RowsOnDisk # <<>> =>
        /\ Head(file.lines) = HeaderLine
        /\ Len(SelectSeq(file.lines, IsHeader)) = 1

\* C14: when the process is killed, read_results on restart yields every row
\* whose append had returned (after the rows readable at startup); killed
\* between the yield and the end of the append it yields those rows with or
\* without the row being appended, and nothing else.
C14_CrashSafeAppend ==
    (pc = "killed" /\ LedgerRead(file0).error = "") =>
        LET got == LedgerRead(file)
            old == LedgerRead(file0).rows
        IN  /\ got.error = ""
            /\ \/ got.rows = old \o SuccessRows
               \/ killed_at = "yielded" /\ got.rows = old \o AllButLast(SuccessRows)

\* C15: the ledger is append-only: no step, within a run or across a kill and
\* a restart, removes the file or changes or removes a line it holds; the data
\* rows on disk before a step are a prefix of those after it.
C15_AppendOnly ==
    [][ /\ file.exists => file'.exists
        /\ IsPrefix(file.lines, file'.lines)
        /\ IsPrefix(DataOnDisk(file), DataOnDisk(file'))
      ]_vars

\* C15 witness: after a restart the rows of the earlier run are still in
\* front and this run has appended one more.
C15_Witness ==
    /\ runs >= 1
    /\ Len(RowsAtStart) >= 1
    /\ IsPrefix(file0.lines, file.lines)
    /\ Len(Appended) >= 1
    /\ pc = "sleep"

\* C19: the row of a successful execution is on disk, with nothing of it left
\* in the file object, when the pacing sleep after it begins; a process killed
\* during a pacing sleep leaves every successful result of the run on disk.
C19_RowFlushedBeforeSleep ==
    /\ pc = "sleep" =>
          /\ Appended = SuccessRows
          /\ \A k \in 1..Len(fdbuf) : fdbuf[k].kind # "row"
          /\ SuccessRows # <<>> => fdbuf = <<>>
    /\ (pc = "killed" /\ killed_at = "sleep") => Appended = SuccessRows

\* C19 witness: the process was killed in the sleep after its second
\* successful query.
C19_Witness ==
    /\ pc = "killed"
    /\ killed_at = "sleep"
    /\ Len(SuccessRows) = 2
    /\ Len(Appended) = 2

\* C20: at the start of every pacing sleep and at normal loop exit, for every
\* name of the query list durations[name] is the sequence of durations of
\* all rows of the ledger file with that name, in file order.
C20_AggregatorAgreesWithLedger ==
    pc \in {"sleep", "done"} =>
        \A n \in DOMAIN durations :
            durations[n] = SelectSeqBy(RowsOnDisk, n)

\* C17: in prober.main a failed search (a timeout or any other error of the
\* client) does not end the loop: main neither exits nor raises after it, and
\* every list of durations holds the successful executions only.
C17_ProberIsolatesErrors ==
    /\ (\E k \in 1..Len(Execs) : ~Execs[k].ok) => pc \notin {"exited", "aborted"}
    /\ \A n \in DOMAIN durations : durations[n] = SelectSeqBy(SuccessRows, n)

\* C18 as stated: over any sequence of Query.send calls against the one
\* configured base address, whatever the paths, at most one client is
\* constructed and every call uses the same client.
C18_OneClientPerBaseAddress ==
    /\ Len(made) <= 1
    /\ \A j, k \in 1..Len(used) : used[j].client = used[k].client

\* C18 amended: one client per distinct URL (base address, "/", path, with
\* trailing "/" removed): no URL has two clients constructed for it, the
\* clients constructed are as many as the distinct URLs called, and two
\* calls use the same client exactly when their URLs are equal.
C18_OneClientPerUrl ==
    /\ \A j, k \in 1..Len(made) : made[j] = made[k] => j = k
    /\ Len(made) = Cardinality({used[k].url : k \in 1..Len(used)})
    /\ \A j, k \in 1..Len(used) :
          (used[j].url = used[k].url) <=> (used[j].client = used[k].client)

\* C18 witness: two calls with different paths and one URL share a client
\* and a call with another URL got a second one.
C18_Witness ==
    /\ Len(used) = 3
    /\ Len(made) = 2
    /\ \E j, k \in 1..Len(used) :
          /\ used[j].path # used[k].path
          /\ used[j].url = used[k].url
          /\ used[j].client = used[k].client
====
